---- MODULE Spec2Model ----
(***************************************************************************)
(* HDFSClient (python/hdfs_client): the retry executor RetryAction, the    *)
(* HDFSClient name-node registry with its retry-wrapped remote operations, *)
(* and the staged upload / download built on them.                         *)
(*                                                                         *)
(* The specifications share the definitions below:                        *)
(*   SpecRetry  one call of a RetryAction around an arbitrary operation,   *)
(*              with a failure callback that records its arguments;        *)
(*   Spec       one call of the client: construction (discovery) or one of *)
(*              makedirs / rename / delete / listdir, while time passes;   *)
(*   SpecUpload, SpecDownload  one call of upload / download;              *)
(*   SpecRoundTrip  an upload and a download of its result, no faults;     *)
(*   SpecThreads  two callers in _refresh_active_namenode on one client.   *)
(***************************************************************************)
EXTENDS Naturals, Sequences, FiniteSets

VARIABLES
    ra,                 \* the RetryAction object of SpecRetry and its position
    attempts,           \* SpecRetry: what each invocation of the wrapped operation did
    triggers,           \* SpecRetry: the is_final argument of each callback invocation
    _nns,               \* HDFSClient._nns: the candidate name nodes, in order
    _active_namenode,   \* HDFSClient._active_namenode ("unset" before the first discovery)
    _last_refresh_ts,   \* HDFSClient._last_refresh_ts: time() at the last discovery
    now,                \* environment: the clock that time() reads
    active,             \* environment: the candidate that reports active, or NoNode
    stable,             \* environment: whether the cluster keeps that role assignment
    call,               \* the public call being executed and its arguments
    pc,                 \* position of the public call's own code
    stack,              \* the RetryAction calls in progress, innermost last
    ret,                \* what the last finished outermost RetryAction call delivered
    locals,             \* local variables of upload / download
    remote,             \* environment: the remote entries at the target and staging paths
    localfs,            \* environment: the local entries at the target and staging paths
    hist,               \* history of the call: requests issued, failures seen
    threads,            \* SpecThreads: each caller's position in _refresh_active_namenode
    lock                \* SpecThreads: the callers' external lock, if they use one

vars == << ra, attempts, triggers, _nns, _active_namenode, _last_refresh_ts, now,
           active, stable, call, pc, stack, ret, locals, remote, localfs, hist,
           threads, lock >>

retryVars  == << ra, attempts, triggers >>
clientVars == << _nns, _active_namenode, _last_refresh_ts, now, active, stable,
                 call, pc, stack, ret, locals, remote, localfs, hist >>
threadVars == << threads, lock >>

-----------------------------------------------------------------------------
(* request_wrapper.py                                                      *)

DEFAULT_ERROR_BOUNDARY == 3

\* ResultValue.NOTHING is the integer 1; the other values an operation returns.
NOTHING == "NOTHING"
PyTrue  == "True"
PyFalse == "False"
PyNone  == "None"

\* Python's == on the values above: True == 1 holds, nothing else coincides.
PyEq(a, b) == a = b \/ {a, b} = {PyTrue, NOTHING}

\* Python's `is` against ResultValue.NOTHING.
IsNothing(v) == v = NOTHING

_is_error_count_exceed_boundary_gt(count) == count > DEFAULT_ERROR_BOUNDARY

\* RetryAction._is_error_count_exceed_boundary
_is_error_count_exceed_boundary(count) == count >= DEFAULT_ERROR_BOUNDARY

\* `result == self._default_return_value`: the result is the sentinel.
IsDefaultResult(result, default) == PyEq(result, default)

Catches_any(exceptions, err) == TRUE

\* `except self._exceptions as err`: the error is one of the declared kinds.
Catches(exceptions, err) == err \in exceptions

\* `if self._is_error_count_exceed_boundary() and default is NOTHING: raise`
ReRaises(count, default) ==
    _is_error_count_exceed_boundary(count) /\ IsNothing(default)

-----------------------------------------------------------------------------
(* SpecRetry: RetryAction.__call__ around an arbitrary operation.          *)

RequestException == "RequestException"
ActiveNamenodeNotFoundException == "ActiveNamenodeNotFoundException"
IOError == "IOError"
AttributeError == "AttributeError"
\* "maximum recursion depth exceeded" (RuntimeError), raised by the interpreter
RuntimeError == "RuntimeError"
ValueError == "ValueError"

\* The defaults the repository constructs executors with (hdfs_client.py:41, 112, 130).
RetryDefaults == {NOTHING, PyFalse, PyNone}
\* The declared retryable kinds of the executor of SpecRetry.
RetryExceptions == {RequestException}
\* What one invocation of the wrapped operation can do.
OpReturns == {PyTrue, PyFalse, PyNone, NOTHING}
OpRaises  == {RequestException, ValueError}

RetryInit ==
    /\ ra \in [ _default_return_value : RetryDefaults,
                _error_count : {0},
                pc : {"while"},
                in_except : {FALSE},
                err : {PyNone},
                out : {[kind |-> "none", val |-> PyNone]} ]
    /\ attempts = << >>
    /\ triggers = << >>

\* line 22: the loop condition holds, enter the try block
RetryEnter ==
    /\ ra.pc = "while"
    /\ ~ _is_error_count_exceed_boundary(ra._error_count)
    /\ ra' = [ra EXCEPT !.pc = "try"]
    /\ UNCHANGED << attempts, triggers >>
    /\ UNCHANGED clientVars /\ UNCHANGED threadVars

\* line 36: the loop condition fails, return the default value
RetryFallback ==
    /\ ra.pc = "while"
    /\ _is_error_count_exceed_boundary(ra._error_count)
    /\ ra' = [ra EXCEPT !.pc = "returned",
                        !.out = [kind |-> "return", val |-> ra._default_return_value]]
    /\ UNCHANGED << attempts, triggers >>
    /\ UNCHANGED clientVars /\ UNCHANGED threadVars

\* lines 24-30: the operation returns `result`
RetryInvokeReturns ==
    /\ ra.pc = "try"
    /\ \E result \in OpReturns :
         /\ attempts' = Append(attempts, result)
         /\ ra' = IF IsDefaultResult(result, ra._default_return_value)
                  THEN [ra EXCEPT !.pc = "error_handle", !.in_except = FALSE,
                                  !.err = "default value"]
                  ELSE [ra EXCEPT !.pc = "returned",
                                  !.out = [kind |-> "return", val |-> result]]
    /\ UNCHANGED triggers
    /\ UNCHANGED clientVars /\ UNCHANGED threadVars

\* lines 24, 31: the operation raises `err`
RetryInvokeRaises ==
    /\ ra.pc = "try"
    /\ \E err \in OpRaises :
         /\ attempts' = Append(attempts, err)
         /\ ra' = IF Catches(RetryExceptions, err)
                  THEN [ra EXCEPT !.pc = "error_handle", !.in_except = TRUE, !.err = err]
                  ELSE [ra EXCEPT !.pc = "raised",
                                  !.out = [kind |-> "raise", val |-> err]]
    /\ UNCHANGED triggers
    /\ UNCHANGED clientVars /\ UNCHANGED threadVars

\* lines 41-44 and 33-35: count the error, call the callback (which records
\* is_final and returns), then re-raise or go round the loop
RetryErrorHandle ==
    /\ ra.pc = "error_handle"
    /\ LET count == ra._error_count + 1
           is_final == _is_error_count_exceed_boundary(count)
       IN /\ triggers' = Append(triggers, is_final)
          /\ ra' = IF ra.in_except /\ ReRaises(count, ra._default_return_value)
                   THEN [ra EXCEPT !._error_count = count, !.pc = "raised",
                                   !.out = [kind |-> "raise", val |-> ra.err]]
                   ELSE [ra EXCEPT !._error_count = count, !.pc = "while"]
    /\ UNCHANGED attempts
    /\ UNCHANGED clientVars /\ UNCHANGED threadVars

RetryNext ==
    \/ RetryEnter
    \/ RetryFallback
    \/ RetryInvokeReturns
    \/ RetryInvokeRaises
    \/ RetryErrorHandle


-----------------------------------------------------------------------------
(* hdfs_client.py: values, the environment, the remote and local stores    *)

MaxDepth == 3   \* interpreter recursion limit, in nested RetryAction calls
MaxClock == 2   \* the values time() takes are 0..MaxClock

Nodes  == {"nn1", "nn2"}
NoNode == "none"
Unset  == "unset"

FILE      == "FILE"
DIRECTORY == "DIRECTORY"
HDFSData  == "HDFSData"

Range(s) == {s[i] : i \in 1..Len(s)}

Reverse(s) == [i \in 1..Len(s) |-> s[Len(s) + 1 - i]]

\* Relative paths are sequences of names; << >> is the transferred path itself.
Root == << >>
Prefixes(rel) == {SubSeq(rel, 1, n) : n \in 0..Len(rel)}
Parent(rel)   == SubSeq(rel, 1, Len(rel) - 1)

\* An entry is ABSENT or a tree: its directories and its files with their
\* content, a sequence of bytes (here: of named blocks of bytes).
ABSENT == [type |-> "ABSENT", dirs |-> {}, files |-> {}]
FileTree(data)      == [type |-> FILE, dirs |-> {}, files |-> {<< Root, data >>}]
DirTree(dirs, files) == [type |-> DIRECTORY, dirs |-> dirs, files |-> files]

EmptyDir == DirTree({Root}, {})
FlatDir  == DirTree({Root}, {<< <<"x">>, <<"d1">> >>})
DeepDir  == DirTree({Root, <<"b">>},
                    {<< <<"x">>, <<"d1", "d2">> >>, << <<"b", "y">>, <<"d2">> >>})
WideDir  == DirTree({Root, <<"a">>, <<"b">>, <<"a", "c">>, <<"b", "d">>},
                    {<< <<"a", "c", "y">>, <<"d1">> >>})
OldFile  == FileTree(<<"old">>)
OldDir   == DirTree({Root}, {<< <<"x">>, <<"old">> >>})

\* The trees a call transfers, and what may be at the target before the call.
SourceTrees  == {FileTree(<<"d1">>), EmptyDir, FlatDir, DeepDir}
PriorEntries == {ABSENT, OldFile, OldDir}

TypeOf(entry) == IF entry = ABSENT THEN PyNone ELSE entry.type

\* Some fixed enumeration of a set, standing for the order a listing comes in.
RECURSIVE SetToSeq(_)
SetToSeq(S) ==
    IF S = {} THEN << >>
    ELSE LET x == CHOOSE y \in S : TRUE IN << x >> \o SetToSeq(S \ {x})

SubDirs(tree, dir)  == {d \in tree.dirs : d # Root /\ Parent(d) = dir}
FilesIn(tree, dir)  == {f \in tree.files : Parent(f[1]) = dir}

(* The server's side of a successful request. *)
RemoteMkdirs(rem, root, rel) ==
    [rem EXCEPT ![root] =
        IF rem[root] = ABSENT THEN DirTree(Prefixes(rel), {})
        ELSE [rem[root] EXCEPT !.dirs = @ \cup Prefixes(rel)]]

RemoteCreate(rem, root, rel, data) ==
    [rem EXCEPT ![root] =
        IF rel = Root THEN FileTree(data)
        ELSE LET base == IF rem[root] = ABSENT THEN DirTree({}, {}) ELSE rem[root]
             IN [base EXCEPT !.dirs = @ \cup Prefixes(Parent(rel)),
                             !.files = {f \in @ : f[1] # rel} \cup {<< rel, data >>}]]

RemoteDelete(rem, root) == [rem EXCEPT ![root] = ABSENT]

RemoteRename(rem, src, dst) == [rem EXCEPT ![dst] = rem[src], ![src] = ABSENT]

\* Whether the server can answer the request with success at all.
CanSucceed(fn, rem, root, rel) ==
    CASE fn = "makedirs"       -> rem[root] = ABSENT \/ rem[root].type = DIRECTORY
      [] fn = "_upload_file"   -> rel = Root \/ rem[root] = ABSENT \/ rem[root].type = DIRECTORY
      [] fn = "delete"         -> TRUE
      [] fn = "rename"         -> rem["T"] # ABSENT /\ rem["R"] = ABSENT
      [] fn = "status"         -> rem[root] # ABSENT
      [] fn = "listdir"        -> rem[root] # ABSENT /\ rel \in rem[root].dirs
      [] fn = "_download_file" -> rem[root] # ABSENT /\ \E f \in rem[root].files : f[1] = rel

\* Answers of a candidate's status endpoint.  In a stable cluster the active
\* candidate reports active and any other one reports standby, answers without
\* success or cannot be reached; in an unstable one (fail-overs, outages) any
\* candidate may give any answer at any request.
StatusAnswers(node) ==
    IF stable
    THEN IF node = active THEN {"active"} ELSE {"standby", "notok", "error"}
    ELSE {"active", "standby", "notok", "error"}

\* Answers to a request sent to `node`: success only from the active node (any
\* node of an unstable cluster) and only if the server can perform it.  In a
\* scenario without faults every request the server can perform succeeds.
RequestAnswers(node, possible) ==
    IF call.faults
    THEN IF possible /\ (~stable \/ node = active)
         THEN {"ok", "notok", "error"}
         ELSE {"notok", "error"}
    ELSE IF possible /\ node = active THEN {"ok"} ELSE {"notok"}

-----------------------------------------------------------------------------
(* hdfs_client.py: the retry-wrapped methods (retry_request, lines 41-50)  *)

REFRESH == "_refresh_active_namenode"

\* The `exceptions` argument of each @retry_request decorator.
Exceptions(fn) ==
    CASE fn = REFRESH          -> {RequestException, ActiveNamenodeNotFoundException}
      [] fn = "_download_file" -> {RequestException, IOError}
      [] OTHER                 -> {RequestException}

\* The `default_return_value` argument of each @retry_request decorator.
Default(fn) ==
    CASE fn = REFRESH   -> NOTHING
      [] fn = "listdir" -> PyNone
      [] OTHER          -> PyFalse

\* func_wrapper: a fresh RetryAction (error count 0) for every call.
NewFrame(fn, root, rel, data) ==
    [fn |-> fn, root |-> root, rel |-> rel, data |-> data,
     _error_count |-> 0, pc |-> "while", idx |-> 0,
     in_except |-> FALSE, err |-> PyNone]

Top      == stack[Len(stack)]
Below    == SubSeq(stack, 1, Len(stack) - 1)
NoRet    == [kind |-> "none", val |-> PyNone]
Returned(v) == [kind |-> "return", val |-> v]
Raised(e)   == [kind |-> "raise", val |-> e]

\* An exception `err` travels up the calls `stk`: a RetryAction catches it only
\* inside its try block (lines 23-32) and only if it is a declared kind; raised
\* while the except clause runs the callback (line 32) it passes through.
RECURSIVE RaiseTo(_, _)
RaiseTo(stk, err) ==
    IF stk = << >> THEN [stack |-> << >>, ret |-> Raised(err)]
    ELSE LET f    == stk[Len(stk)]
             rest == SubSeq(stk, 1, Len(stk) - 1)
         IN IF ~f.in_except /\ Catches(Exceptions(f.fn), err)
            THEN [stack |-> Append(rest, [f EXCEPT !.pc = "error_handle", !.idx = 0,
                                                   !.in_except = TRUE, !.err = err]),
                  ret |-> ret]
            ELSE RaiseTo(rest, err)

\* A RetryAction call returns `val` to the calls `stk` below it: to the public
\* call when there is none, else to a callback, after which lines 33-36 run.
ReturnTo(stk, val) ==
    IF stk = << >> THEN [stack |-> << >>, ret |-> Returned(val)]
    ELSE LET f    == stk[Len(stk)]
             rest == SubSeq(stk, 1, Len(stk) - 1)
         IN IF f.in_except /\ ReRaises(f._error_count, Default(f.fn))
            THEN RaiseTo(rest, f.err)
            ELSE [stack |-> Append(rest, [f EXCEPT !.pc = "while"]), ret |-> ret]

\* lines 24-30: the wrapped function of the innermost call returned `result`.
FuncReturns(stk, result) ==
    LET f    == stk[Len(stk)]
        rest == SubSeq(stk, 1, Len(stk) - 1)
    IN IF IsDefaultResult(result, Default(f.fn))
       THEN [stack |-> Append(rest, [f EXCEPT !.pc = "error_handle", !.idx = 0,
                                              !.in_except = FALSE,
                                              !.err = "default value"]),
             ret |-> ret]
       ELSE ReturnTo(rest, result)

Goes(d) == stack' = d.stack /\ ret' = d.ret

\* Requests sent by the wrapped function of a makedirs / rename / delete /
\* listdir that is the public call itself.
CountSent == IF Len(stack) = 1 /\ pc = "wait" THEN hist.sent + 1 ELSE hist.sent

\* _format_namenode (lines 97-99) and _send_request (lines 101-104): the
\* request goes to self._active_namenode as it is when the request is built.
\* The history keeps, for the first and the last request, the node addressed,
\* the node the last discovery found active, the time since that discovery
\* and whether this call has run a discovery.
ThisSend == [to |-> _active_namenode, found |-> hist.found,
             elapsed |-> now - _last_refresh_ts, discovered |-> hist.discovered]

Sent(h) == [h EXCEPT !.sent = CountSent,
                     !.first_send = IF h.first_send.to = PyNone THEN ThisSend ELSE @,
                     !.last_send = ThisSend]

\* line 22: the loop condition holds
FrameEnter ==
    /\ stack # << >> /\ Top.pc = "while"
    /\ ~ _is_error_count_exceed_boundary(Top._error_count)
    /\ stack' = Append(Below, [Top EXCEPT !.pc = "try", !.in_except = FALSE, !.idx = 0])
    /\ UNCHANGED << _nns, _active_namenode, _last_refresh_ts, now, active, stable, call, pc, ret,
                    locals, remote, localfs, hist >>
    /\ UNCHANGED retryVars /\ UNCHANGED threadVars

\* line 36: the loop condition fails, the call returns its default value
FrameFallback ==
    /\ stack # << >> /\ Top.pc = "while"
    /\ _is_error_count_exceed_boundary(Top._error_count)
    /\ Goes(ReturnTo(Below, Default(Top.fn)))
    /\ UNCHANGED << _nns, _active_namenode, _last_refresh_ts, now, active, stable, call, pc,
                    locals, remote, localfs, hist >>
    /\ UNCHANGED retryVars /\ UNCHANGED threadVars

\* _refresh_active_namenode, lines 81-89: query the next candidate's status
RefreshQuery ==
    /\ stack # << >> /\ Top.fn = REFRESH /\ Top.pc = "try"
    /\ \E ans \in StatusAnswers(_nns[Top.idx + 1]) :
           /\ Goes(CASE ans = "active" ->
                          [stack |-> Append(Below, [Top EXCEPT !.pc = "found"]),
                           ret |-> ret]
                     [] ans = "error" -> RaiseTo(stack, RequestException)
                     [] OTHER ->
                          IF Top.idx + 1 < Len(_nns)
                          THEN [stack |-> Append(Below, [Top EXCEPT !.idx = @ + 1]),
                                ret |-> ret]
                          ELSE RaiseTo(stack, ActiveNamenodeNotFoundException))
    /\ UNCHANGED << _nns, _active_namenode, _last_refresh_ts, now, active, stable, call, pc,
                    locals, remote, localfs, hist >>
    /\ UNCHANGED retryVars /\ UNCHANGED threadVars

Promote_never(nns, active_index) == nns

Promote_always(nns, active_index) == Reverse(nns)

\* lines 91-92: `if active_index == 1: self._nns.reverse()`
Promote(nns, active_index) == IF active_index = 1 THEN Reverse(nns) ELSE nns

\* _refresh_active_namenode, lines 91-95: promote the candidate found active
RefreshPromote ==
    /\ stack # << >> /\ Top.fn = REFRESH /\ Top.pc = "found"
    /\ _nns' = Promote(_nns, Top.idx)
    /\ _active_namenode' = _nns'[1]
    /\ _last_refresh_ts' = now
    /\ Goes(FuncReturns(stack, PyNone))
    /\ hist' = [hist EXCEPT !.found = _nns[Top.idx + 1], !.discovered = TRUE]
    /\ UNCHANGED << now, active, stable, call, pc, locals, remote, localfs >>
    /\ UNCHANGED retryVars /\ UNCHANGED threadVars

\* _send_simple_request, lines 106-110
_send_simple_request(ans) == IF ans = "ok" THEN PyTrue ELSE PyFalse

\* os_path.basename(remote_path), line 222
Basename(root, rel) == IF rel = Root THEN root ELSE rel[Len(rel)]

\* line 223, `files={file_name: f}`: requests encodes the file as one part of
\* a multipart/form-data body (boundary and part header, the file's bytes, the
\* closing boundary); that body is what the CREATE request carries.
RequestBody(file_name, content) ==
    << "--boundary", file_name >> \o content \o << "--boundary--" >>

\* The server's side of a successful makedirs / rename / delete / create-file
\* (CREATE stores the body of the request as the file's content).
Effect(f, rem) ==
    CASE f.fn = "makedirs"     -> RemoteMkdirs(rem, f.root, f.rel)
      [] f.fn = "_upload_file" ->
             RemoteCreate(rem, f.root, f.rel,
                          RequestBody(Basename(f.root, f.rel), f.data))
      [] f.fn = "delete"       -> RemoteDelete(rem, f.root)
      [] f.fn = "rename"       -> RemoteRename(rem, "T", "R")

\* makedirs, rename, delete (lines 112-128) and _upload_file's request
\* (lines 223-227): one request to the cached active node
SimpleRequest ==
    /\ stack # << >> /\ Top.pc = "try"
    /\ Top.fn \in {"makedirs", "rename", "delete", "_upload_file"}
    /\ \E ans \in RequestAnswers(_active_namenode,
                                  CanSucceed(Top.fn, remote, Top.root, Top.rel)) :
           /\ remote' = IF ans = "ok" THEN Effect(Top, remote) ELSE remote
           /\ Goes(IF ans = "error" THEN RaiseTo(stack, RequestException)
                   ELSE FuncReturns(stack, _send_simple_request(ans)))
    /\ hist' = Sent([hist EXCEPT !.issued = @ \cup {<< Top.fn, Top.root >>}])
    /\ UNCHANGED << _nns, _active_namenode, _last_refresh_ts, now, active, stable, call, pc,
                    locals, localfs >>
    /\ UNCHANGED retryVars /\ UNCHANGED threadVars

\* listdir, lines 130-145
ListdirRequest ==
    /\ stack # << >> /\ Top.pc = "try" /\ Top.fn = "listdir"
    /\ \E ans \in RequestAnswers(_active_namenode,
                                  CanSucceed("listdir", remote, Top.root, Top.rel)) :
           /\ Goes(CASE ans = "error" -> RaiseTo(stack, RequestException)
                     [] ans = "ok"    -> FuncReturns(stack, HDFSData)
                     [] OTHER         -> FuncReturns(stack, PyNone))
    /\ hist' = Sent([hist EXCEPT !.issued = @ \cup {<< "listdir", Top.root >>}])
    /\ UNCHANGED << _nns, _active_namenode, _last_refresh_ts, now, active, stable, call, pc,
                    locals, remote, localfs >>
    /\ UNCHANGED retryVars /\ UNCHANGED threadVars

\* _error_handle (lines 41-44) with request_error_trigger (lines 68-74), final
\* attempt: the callback only logs; then lines 33-35
ErrorHandleFinal ==
    /\ stack # << >> /\ Top.pc = "error_handle"
    /\ LET count == Top._error_count + 1
           f     == [Top EXCEPT !._error_count = count, !.pc = "while"]
       IN /\ _is_error_count_exceed_boundary(count)
          /\ Goes(IF Top.in_except /\ ReRaises(count, Default(Top.fn))
                  THEN RaiseTo(Below, Top.err)
                  ELSE [stack |-> Append(Below, f), ret |-> ret])
          /\ hist' = [hist EXCEPT !.disc_raised =
                         @ \/ (Top.fn = REFRESH /\ Top.in_except
                               /\ ReRaises(count, Default(Top.fn)))]
    /\ UNCHANGED << _nns, _active_namenode, _last_refresh_ts, now, active, stable, call, pc,
                    locals, remote, localfs >>
    /\ UNCHANGED retryVars /\ UNCHANGED threadVars

\* _error_handle with request_error_trigger, not the final attempt: the
\* callback calls _refresh_active_namenode (line 74), a new RetryAction call.
\* (The caught error is read again only by the `raise` of line 35, which is
\* reached on the final attempt alone: the waiting call need not keep it.)
ErrorHandleRefresh ==
    /\ stack # << >> /\ Top.pc = "error_handle"
    /\ Len(stack) < MaxDepth
    /\ LET count == Top._error_count + 1
       IN /\ ~ _is_error_count_exceed_boundary(count)
          /\ stack' = Append(Append(Below, [Top EXCEPT !._error_count = count,
                                                       !.pc = "trigger",
                                                       !.err = PyNone]),
                             NewFrame(REFRESH, "jmx", Root, PyNone))
    /\ UNCHANGED << _nns, _active_namenode, _last_refresh_ts, now, active, stable, call, pc, ret,
                    locals, remote, localfs, hist >>
    /\ UNCHANGED retryVars /\ UNCHANGED threadVars

\* the same at the interpreter's recursion limit: the nested call raises
\* RuntimeError, which no RetryAction of the client declares
ErrorHandleOverflow ==
    /\ stack # << >> /\ Top.pc = "error_handle"
    /\ Len(stack) >= MaxDepth
    /\ LET count == Top._error_count + 1
       IN /\ ~ _is_error_count_exceed_boundary(count)
          /\ Goes(RaiseTo(Append(Below, [Top EXCEPT !._error_count = count,
                                                    !.pc = "trigger"]),
                          RuntimeError))
    /\ hist' = [hist EXCEPT !.disc_raised = TRUE]
    /\ UNCHANGED << _nns, _active_namenode, _last_refresh_ts, now, active, stable, call, pc,
                    locals, remote, localfs >>
    /\ UNCHANGED retryVars /\ UNCHANGED threadVars


-----------------------------------------------------------------------------
(* Spec: one call of the client, construction or a simple operation        *)

Registries == {<< "nn1" >>, << "nn1", "nn2" >>}

NoSend == [to |-> PyNone, found |-> PyNone, elapsed |-> 0, discovered |-> FALSE]
NoHist == [issued |-> {}, sent |-> 0, disc_raised |-> FALSE, stat_raised |-> FALSE,
           step_failed |-> FALSE, io_error |-> FALSE, precheck |-> PyNone,
           found |-> PyNone, discovered |-> FALSE,
           enqueued |-> << >>, dequeued |-> << >>,
           first_send |-> NoSend, last_send |-> NoSend]

\* A constructed client: its construction's discovery found the cached node.
Constructed(node) == [NoHist EXCEPT !.found = node]
NoLocals == [data_type |-> PyNone, is_success |-> PyTrue, steps |-> << >>,
             dir_queue |-> << >>, files |-> << >>, current_dir |-> Root]

\* No concurrent callers: the client is used by one caller.
ThreadsIdle == threads = << >> /\ lock = "unused"

RetryIdle ==
    /\ ra = [_default_return_value |-> PyFalse, _error_count |-> 0, pc |-> "idle",
             in_except |-> FALSE, err |-> PyNone, out |-> NoRet]
    /\ attempts = << >>
    /\ triggers = << >>

ClientIdle ==
    /\ _nns = << "nn1" >> /\ _active_namenode = "nn1"
    /\ _last_refresh_ts = 0 /\ now = 0
    /\ active = "nn1" /\ stable = TRUE
    /\ call = [op |-> "none", namenodes |-> << "nn1" >>, overwrite |-> FALSE,
               src |-> ABSENT, prior |-> ABSENT, faults |-> TRUE]
    /\ pc = "idle" /\ stack = << >> /\ ret = NoRet
    /\ locals = NoLocals
    /\ remote = [R |-> ABSENT, T |-> ABSENT]
    /\ localfs = [L |-> ABSENT, T |-> ABSENT]
    /\ hist = NoHist

SimpleOps == {"makedirs", "rename", "delete"}

\* A constructed client has a registry of 1 or 2 candidates and caches the one
\* at position 0 (lines 62-66, 91-94); the cluster may have changed since.
ClientInit ==
    /\ call \in [op : {"__init__", "listdir"} \cup SimpleOps,
                 namenodes : Registries \cup {<< >>},
                 overwrite : {FALSE},
                 src : {ABSENT, FlatDir},
                 prior : {ABSENT, OldDir},
                 faults : {TRUE}]
    /\ call.src = IF call.op = "rename" THEN FlatDir ELSE ABSENT
    /\ call.op # "__init__" => call.namenodes # << >>
    /\ call.op = "__init__" => call.prior = ABSENT
    /\ _nns = IF call.op = "__init__" THEN << >> ELSE call.namenodes
    /\ _active_namenode = IF call.op = "__init__" THEN Unset ELSE _nns[1]
    /\ active \in Range(call.namenodes) \cup {NoNode}
    /\ stable \in BOOLEAN
    /\ ~stable => active = NoNode
    /\ pc = "start" /\ stack = << >> /\ ret = NoRet
    /\ locals = NoLocals
    /\ remote = [R |-> call.prior, T |-> call.src]
    /\ localfs = [L |-> ABSENT, T |-> ABSENT]
    /\ _last_refresh_ts = 0 /\ now = 0
    /\ hist = IF call.op = "__init__" THEN NoHist ELSE Constructed(_active_namenode)
    /\ RetryIdle /\ ThreadsIdle

\* __init__, lines 62-63: the registry must hold 1 or 2 candidates
ConstructRejects ==
    /\ pc = "start" /\ call.op = "__init__"
    /\ Len(call.namenodes) = 0 \/ Len(call.namenodes) > 2
    /\ pc' = "done" /\ ret' = Raised(ValueError)
    /\ UNCHANGED << _nns, _active_namenode, _last_refresh_ts, now, active, stable, call, stack,
                    locals, remote, localfs, hist >>
    /\ UNCHANGED retryVars /\ UNCHANGED threadVars

\* __init__, lines 65-66: keep the candidates and discover the active one
Construct ==
    /\ pc = "start" /\ call.op = "__init__"
    /\ ~ (Len(call.namenodes) = 0 \/ Len(call.namenodes) > 2)
    /\ _nns' = call.namenodes
    /\ stack' = << NewFrame(REFRESH, "jmx", Root, PyNone) >>
    /\ pc' = "wait"
    /\ UNCHANGED << _active_namenode, _last_refresh_ts, now, active, stable, call, ret,
                    locals, remote, localfs, hist >>
    /\ UNCHANGED retryVars /\ UNCHANGED threadVars

\* a caller invokes makedirs(R), delete(R, True), rename(T, R) or listdir(R)
CallStart ==
    /\ pc = "start" /\ call.op \in SimpleOps \cup {"listdir"}
    /\ stack' = << NewFrame(call.op, IF call.op = "rename" THEN "T" ELSE "R",
                            Root, PyNone) >>
    /\ pc' = "wait"
    /\ UNCHANGED << _nns, _active_namenode, _last_refresh_ts, now, active, stable, call, ret,
                    locals, remote, localfs, hist >>
    /\ UNCHANGED retryVars /\ UNCHANGED threadVars

\* the call's RetryAction has returned or raised: the public call ends
CallEnd ==
    /\ pc = "wait" /\ stack = << >>
    /\ pc' = "done"
    /\ UNCHANGED << _nns, _active_namenode, _last_refresh_ts, now, active, stable, call, stack, ret,
                    locals, remote, localfs, hist >>
    /\ UNCHANGED retryVars /\ UNCHANGED threadVars

\* time passes: time() (line 95) reads a later value
Tick ==
    /\ pc # "done" /\ now < MaxClock
    /\ now' = now + 1
    /\ UNCHANGED << _nns, _active_namenode, _last_refresh_ts, active, stable, call, pc,
                    stack, ret, locals, remote, localfs, hist >>
    /\ UNCHANGED retryVars /\ UNCHANGED threadVars

FrameNext ==
    \/ FrameEnter
    \/ FrameFallback
    \/ RefreshQuery
    \/ RefreshPromote
    \/ ErrorHandleFinal
    \/ ErrorHandleRefresh
    \/ ErrorHandleOverflow

Init == ClientInit

Next ==
    \/ ConstructRejects
    \/ Construct
    \/ CallStart
    \/ CallEnd
    \/ SimpleRequest
    \/ ListdirRequest
    \/ FrameNext
    \/ Tick

Spec == Init /\ [][Next]_vars

InitRetry == RetryInit /\ ClientIdle /\ ThreadsIdle

NextRetry == RetryNext

SpecRetry == InitRetry /\ [][NextRetry]_vars

Done == pc = "done"


-----------------------------------------------------------------------------
(* upload (lines 168-227)                                                  *)

\* Python's & on two bools.
PyAnd(a, b) == IF a = PyTrue /\ b = PyTrue THEN PyTrue ELSE PyFalse

\* os.walk(local_path) as _upload_directory consumes it (lines 207-212): per
\* directory, top down, a makedirs for each sub-directory, then an _upload_file
\* for each file; then the sub-directories in turn.
RECURSIVE WalkFrom(_, _), WalkEach(_, _)
WalkFrom(tree, dir) ==
    LET ds == SetToSeq(SubDirs(tree, dir))
        fs == SetToSeq(FilesIn(tree, dir))
    IN [i \in 1..Len(ds) |-> [fn |-> "makedirs", rel |-> ds[i], data |-> PyNone]]
       \o [i \in 1..Len(fs) |-> [fn |-> "_upload_file", rel |-> fs[i][1],
                                 data |-> fs[i][2]]]
       \o WalkEach(tree, ds)
WalkEach(tree, ds) ==
    IF ds = << >> THEN << >>
    ELSE WalkFrom(tree, Head(ds)) \o WalkEach(tree, Tail(ds))

\* _get_remote_data_type (lines 147-158): one request, not retry-wrapped;
\* the answers it can get for the entry at `root`
StatusAnswersFor(root) ==
    RequestAnswers(_active_namenode, CanSucceed("status", remote, root, Root))

\* its result: the entry's type, None, or the RequestException of the request
_get_remote_data_type(ans, root) ==
    CASE ans = "ok"    -> TypeOf(remote[root])
      [] ans = "notok" -> PyNone
      [] OTHER         -> RequestException

\* _get_local_data_type (lines 160-166)
_get_local_data_type(entry) == TypeOf(entry)

UploadBlocked_inverted(overwrite, type) == ~overwrite /\ type = PyNone

\* line 169: `not overwrite and self._get_remote_data_type(remote_path) is not None`
UploadBlocked(overwrite, type) == ~overwrite /\ type # PyNone

Asked(root) == [hist EXCEPT !.issued = @ \cup {<< "status", root >>}]

\* upload, lines 169-171, overwrite not requested: the existence pre-check
UploadPrecheck ==
    /\ pc = "upload" /\ ~call.overwrite
    /\ \E ans \in StatusAnswersFor("R") :
         LET type == _get_remote_data_type(ans, "R")
         IN /\ pc' = IF type = RequestException \/ UploadBlocked(call.overwrite, type)
                     THEN "done" ELSE "classify"
            /\ ret' = CASE type = RequestException -> Raised(RequestException)
                        [] UploadBlocked(call.overwrite, type) -> Returned(PyFalse)
                        [] OTHER -> ret
            /\ hist' = [Asked("R") EXCEPT
                           !.stat_raised = (type = RequestException),
                           !.precheck = IF type = RequestException THEN PyNone ELSE type]
    /\ UNCHANGED << _nns, _active_namenode, _last_refresh_ts, now, active, stable, call, stack,
                    locals, remote, localfs >>
    /\ UNCHANGED retryVars /\ UNCHANGED threadVars

\* upload, line 169 with overwrite=True: the status query is not evaluated
UploadNoPrecheck ==
    /\ pc = "upload" /\ call.overwrite
    /\ pc' = "classify"
    /\ UNCHANGED << _nns, _active_namenode, _last_refresh_ts, now, active, stable, call, stack, ret,
                    locals, remote, localfs, hist >>
    /\ UNCHANGED retryVars /\ UNCHANGED threadVars

\* upload lines 173-178, _upload_by_tmp_data lines 181-183, _upload_data and
\* the first call of _upload_directory (line 205) or _upload_file
UploadClassify ==
    /\ pc = "classify"
    /\ LET data_type == _get_local_data_type(localfs["L"])
       IN /\ locals' = [locals EXCEPT !.data_type = data_type, !.is_success = PyTrue]
          /\ pc' = CASE data_type = PyNone    -> "done"
                     [] data_type = DIRECTORY -> "root_made"
                     [] data_type = FILE      -> "transfer"
          /\ ret' = IF data_type = PyNone THEN Returned(PyFalse) ELSE ret
          /\ stack' = CASE data_type = PyNone    -> << >>
                        [] data_type = DIRECTORY ->
                             << NewFrame("makedirs", "T", Root, PyNone) >>
                        [] data_type = FILE ->
                             << NewFrame("_upload_file", "T", Root,
                                         (CHOOSE f \in localfs["L"].files : TRUE)[2]) >>
    /\ UNCHANGED << _nns, _active_namenode, _last_refresh_ts, now, active, stable, call,
                    remote, localfs, hist >>
    /\ UNCHANGED retryVars /\ UNCHANGED threadVars

\* _upload_file, line 221: the local file cannot be opened or read
UploadFileOpenFails ==
    /\ call.faults
    /\ stack # << >> /\ Top.pc = "try" /\ Top.fn = "_upload_file"
    /\ Goes(RaiseTo(stack, IOError))
    /\ hist' = [hist EXCEPT !.io_error = TRUE]
    /\ UNCHANGED << _nns, _active_namenode, _last_refresh_ts, now, active, stable, call, pc,
                    locals, remote, localfs >>
    /\ UNCHANGED retryVars /\ UNCHANGED threadVars

UploadWaits == {"root_made", "transfer", "step", "deleted", "renamed", "cleaned"}

\* an exception of a retry-wrapped call passes through upload (no handler)
UploadRaises ==
    /\ pc \in UploadWaits /\ stack = << >> /\ ret.kind = "raise"
    /\ pc' = "done"
    /\ UNCHANGED << _nns, _active_namenode, _last_refresh_ts, now, active, stable, call, stack, ret,
                    locals, remote, localfs, hist >>
    /\ UNCHANGED retryVars /\ UNCHANGED threadVars

Failed(v) == [hist EXCEPT !.step_failed = @ \/ (v = PyFalse)]

\* _upload_directory: line 205 has returned (its result is not used); line 207
UploadWalk ==
    /\ pc = "root_made" /\ stack = << >> /\ ret.kind = "return"
    /\ LET steps == WalkFrom(localfs["L"], Root)
       IN /\ locals' = [locals EXCEPT !.steps = steps]
          /\ pc' = IF steps = << >> THEN "staged" ELSE "walk"
    /\ ret' = NoRet
    /\ hist' = Failed(ret.val)
    /\ UNCHANGED << _nns, _active_namenode, _last_refresh_ts, now, active, stable, call, stack,
                    remote, localfs >>
    /\ UNCHANGED retryVars /\ UNCHANGED threadVars

\* _upload_directory, lines 210 and 212: the next makedirs or _upload_file
UploadStep ==
    /\ pc = "walk" /\ stack = << >>
    /\ LET step == Head(locals.steps)
       IN stack' = << NewFrame(step.fn, "T", step.rel, step.data) >>
    /\ pc' = "step"
    /\ UNCHANGED << _nns, _active_namenode, _last_refresh_ts, now, active, stable, call, ret,
                    locals, remote, localfs, hist >>
    /\ UNCHANGED retryVars /\ UNCHANGED threadVars

\* _upload_directory, lines 210 and 212: `is_success &= ...`
UploadStepDone ==
    /\ pc = "step" /\ stack = << >> /\ ret.kind = "return"
    /\ locals' = [locals EXCEPT !.is_success = PyAnd(@, ret.val),
                                !.steps = Tail(@)]
    /\ pc' = IF Tail(locals.steps) = << >> THEN "staged" ELSE "walk"
    /\ ret' = NoRet
    /\ hist' = Failed(ret.val)
    /\ UNCHANGED << _nns, _active_namenode, _last_refresh_ts, now, active, stable, call, stack,
                    remote, localfs >>
    /\ UNCHANGED retryVars /\ UNCHANGED threadVars

\* _upload_data, line 197: the result of the single _upload_file
UploadFileDone ==
    /\ pc = "transfer" /\ stack = << >> /\ ret.kind = "return"
    /\ locals' = [locals EXCEPT !.is_success = ret.val]
    /\ pc' = "staged"
    /\ ret' = NoRet
    /\ hist' = Failed(ret.val)
    /\ UNCHANGED << _nns, _active_namenode, _last_refresh_ts, now, active, stable, call, stack,
                    remote, localfs >>
    /\ UNCHANGED retryVars /\ UNCHANGED threadVars

\* _upload_by_tmp_data, lines 185-186 or 188-189, with
\* _check_and_remove_remote_data (lines 305-307): ask for the entry at the
\* target (after a success) or at the staging path (after a failure), and
\* delete it if the answer names one
UploadCheckAndRemove ==
    /\ pc = "staged"
    /\ LET root == IF locals.is_success = PyTrue THEN "R" ELSE "T"
       IN \E ans \in StatusAnswersFor(root) :
            LET type == _get_remote_data_type(ans, root)
            IN /\ hist' = [Asked(root) EXCEPT !.stat_raised = (type = RequestException)]
               /\ CASE type = RequestException ->
                         /\ pc' = "done" /\ ret' = Raised(RequestException)
                         /\ stack' = << >>
                    [] type = PyNone /\ root = "T" ->
                         /\ pc' = "done" /\ ret' = Returned(locals.is_success)
                         /\ stack' = << >>
                    [] type = PyNone /\ root = "R" ->
                         /\ pc' = "renamed" /\ ret' = ret
                         /\ stack' = << NewFrame("rename", "T", Root, PyNone) >>
                    [] OTHER ->
                         /\ pc' = IF root = "R" THEN "deleted" ELSE "cleaned"
                         /\ ret' = ret
                         /\ stack' = << NewFrame("delete", root, Root, PyNone) >>
    /\ UNCHANGED << _nns, _active_namenode, _last_refresh_ts, now, active, stable, call,
                    locals, remote, localfs >>
    /\ UNCHANGED retryVars /\ UNCHANGED threadVars

\* _upload_by_tmp_data, line 187: rename the staging path to the target
\* (the result of the delete before it is not used)
UploadRename ==
    /\ pc = "deleted" /\ stack = << >> /\ ret.kind = "return"
    /\ stack' = << NewFrame("rename", "T", Root, PyNone) >>
    /\ pc' = "renamed"
    /\ ret' = NoRet
    /\ UNCHANGED << _nns, _active_namenode, _last_refresh_ts, now, active, stable, call,
                    locals, remote, localfs, hist >>
    /\ UNCHANGED retryVars /\ UNCHANGED threadVars

\* _upload_by_tmp_data, line 191: return is_success (the result of the rename,
\* or of the delete of the staging path, is not used)
UploadReturn ==
    /\ pc \in {"renamed", "cleaned"} /\ stack = << >> /\ ret.kind = "return"
    /\ pc' = "done"
    /\ ret' = Returned(locals.is_success)
    /\ UNCHANGED << _nns, _active_namenode, _last_refresh_ts, now, active, stable, call, stack,
                    locals, remote, localfs, hist >>
    /\ UNCHANGED retryVars /\ UNCHANGED threadVars

UploadInit ==
    /\ call \in [op : {"upload"},
                 namenodes : Registries,
                 overwrite : BOOLEAN,
                 src : SourceTrees \cup {ABSENT},
                 prior : PriorEntries,
                 faults : {TRUE}]
    /\ _nns = call.namenodes
    /\ _active_namenode = _nns[1]
    /\ active \in Range(call.namenodes) \cup {NoNode}
    /\ stable \in BOOLEAN
    /\ ~stable => active = NoNode
    /\ pc = "upload" /\ stack = << >> /\ ret = NoRet
    /\ locals = NoLocals
    /\ remote = [R |-> call.prior, T |-> ABSENT]
    /\ localfs = [L |-> call.src, T |-> ABSENT]
    /\ _last_refresh_ts = 0 /\ now = 0
    /\ hist = IF call.op = "__init__" THEN NoHist ELSE Constructed(_active_namenode)
    /\ RetryIdle /\ ThreadsIdle

UploadNext ==
    \/ UploadPrecheck
    \/ UploadNoPrecheck
    \/ UploadClassify
    \/ UploadFileOpenFails
    \/ UploadRaises
    \/ UploadWalk
    \/ UploadStep
    \/ UploadStepDone
    \/ UploadFileDone
    \/ UploadCheckAndRemove
    \/ UploadRename
    \/ UploadReturn
    \/ SimpleRequest
    \/ FrameNext

SpecUpload == UploadInit /\ [][UploadNext]_vars

-----------------------------------------------------------------------------
(* download (lines 229-303)                                                *)

\* os.makedirs(local_dir_path), line 270
LocalMkdirs(fs, root, rel) ==
    [fs EXCEPT ![root] =
        IF fs[root] = ABSENT THEN DirTree(Prefixes(rel), {})
        ELSE [fs[root] EXCEPT !.dirs = @ \cup Prefixes(rel)]]

\* Iterating a response (line 295) yields its content in chunks.
Chunks(content) == [i \in 1..Len(content) |-> << content[i] >>]

\* f.write(chunk) for each chunk, in order (lines 295-296)
RECURSIVE WriteAll(_)
WriteAll(chunks) ==
    IF chunks = << >> THEN << >> ELSE Head(chunks) \o WriteAll(Tail(chunks))

\* _write_content (lines 293-296): the response's bytes into the local file
_write_content(fs, root, rel, data) ==
    LET written == WriteAll(Chunks(data))
    IN [fs EXCEPT ![root] =
           IF rel = Root THEN FileTree(written)
           ELSE [fs[root] EXCEPT !.files = {f \in @ : f[1] # rel}
                                           \cup {<< rel, written >>}]]

\* _check_and_remove_local_data (lines 298-303) then os.rename (line 248)
LocalCommit(fs) == [fs EXCEPT !["L"] = fs["T"], !["T"] = ABSENT]

\* os.path.exists(local_path), line 230
LocalExists(entry) == entry # ABSENT

\* The bytes the server sends for the file at `rel` of the entry at `root`.
RemoteData(rem, root, rel) == (CHOOSE f \in rem[root].files : f[1] = rel)[2]

\* download, lines 230-232: the target exists locally and overwrite is off
DownloadRefused ==
    /\ pc = "download"
    /\ ~call.overwrite /\ LocalExists(localfs["L"])
    /\ pc' = "done" /\ ret' = Returned(PyFalse)
    /\ UNCHANGED << _nns, _active_namenode, _last_refresh_ts, now, active, stable, call, stack,
                    locals, remote, localfs, hist >>
    /\ UNCHANGED retryVars /\ UNCHANGED threadVars

\* download lines 234-239, _download_by_tmp_data lines 242-244, _download_data
\* up to the first call of _download_file or the start of the queue (line 265)
DownloadStatus ==
    /\ pc = "download"
    /\ ~ (~call.overwrite /\ LocalExists(localfs["L"]))
    /\ \E ans \in StatusAnswersFor("R") :
         LET type == _get_remote_data_type(ans, "R")
         IN /\ hist' = [Asked("R") EXCEPT
                           !.stat_raised = (type = RequestException),
                           !.enqueued = IF type = DIRECTORY THEN << Root >> ELSE << >>]
            /\ locals' = [locals EXCEPT
                             !.data_type = IF type = RequestException THEN PyNone ELSE type,
                             !.is_success = PyTrue,
                             !.dir_queue = IF type = DIRECTORY THEN << Root >> ELSE << >>]
            /\ pc' = CASE type = FILE      -> "dl_file"
                       [] type = DIRECTORY -> "bfs"
                       [] OTHER            -> "done"
            /\ ret' = CASE type = RequestException -> Raised(RequestException)
                        [] type = PyNone            -> Returned(PyFalse)
                        [] OTHER                    -> ret
            /\ stack' = IF type = FILE
                        THEN << NewFrame("_download_file", "R", Root, PyNone) >>
                        ELSE << >>
    /\ UNCHANGED << _nns, _active_namenode, _last_refresh_ts, now, active, stable, call,
                    remote, localfs >>
    /\ UNCHANGED retryVars /\ UNCHANGED threadVars

\* _download_file (lines 281-291): one OPEN request; on success the content is
\* written to the local staging path, which may fail with IOError
DownloadFileRequest ==
    /\ stack # << >> /\ Top.pc = "try" /\ Top.fn = "_download_file"
    /\ \E ans \in RequestAnswers(_active_namenode,
                                 CanSucceed("_download_file", remote, Top.root, Top.rel)) :
         \E written \in (IF call.faults THEN BOOLEAN ELSE {TRUE}) :
           /\ localfs' = IF ans = "ok" /\ written
                         THEN _write_content(localfs, "T", Top.rel,
                                             RemoteData(remote, Top.root, Top.rel))
                         ELSE localfs
           /\ Goes(CASE ans = "error"         -> RaiseTo(stack, RequestException)
                     [] ans = "notok"         -> FuncReturns(stack, PyFalse)
                     [] ans = "ok" /\ written  -> FuncReturns(stack, PyTrue)
                     [] OTHER                 -> RaiseTo(stack, IOError))
    /\ hist' = [hist EXCEPT !.issued = @ \cup {<< "_download_file", Top.root >>}]
    /\ UNCHANGED << _nns, _active_namenode, _last_refresh_ts, now, active, stable, call, pc,
                    locals, remote >>
    /\ UNCHANGED retryVars /\ UNCHANGED threadVars

DownloadWaits == {"dl_file", "listed", "dl_step"}

\* an exception of a retry-wrapped call passes through download (no handler)
DownloadRaises ==
    /\ pc \in DownloadWaits /\ stack = << >> /\ ret.kind = "raise"
    /\ pc' = "done"
    /\ UNCHANGED << _nns, _active_namenode, _last_refresh_ts, now, active, stable, call, stack, ret,
                    locals, remote, localfs, hist >>
    /\ UNCHANGED retryVars /\ UNCHANGED threadVars

\* _download_data, line 258: the result of the single _download_file
DownloadFileDone ==
    /\ pc = "dl_file" /\ stack = << >> /\ ret.kind = "return"
    /\ locals' = [locals EXCEPT !.is_success = ret.val]
    /\ pc' = "dl_staged"
    /\ ret' = NoRet
    /\ hist' = Failed(ret.val)
    /\ UNCHANGED << _nns, _active_namenode, _last_refresh_ts, now, active, stable, call, stack,
                    remote, localfs >>
    /\ UNCHANGED retryVars /\ UNCHANGED threadVars

pop(queue) == [item |-> queue[Len(queue)], rest |-> SubSeq(queue, 1, Len(queue) - 1)]

\* dir_queue.popleft(), line 267
popleft(queue) == [item |-> Head(queue), rest |-> Tail(queue)]

\* _download_directory, lines 266-272: take the next directory off the queue,
\* create its local staging directory and list the remote one
DownloadDequeue ==
    /\ pc = "bfs"
    /\ Len(locals.dir_queue) # 0 /\ locals.is_success = PyTrue
    /\ LET current_dir == popleft(locals.dir_queue).item
       IN /\ locals' = [locals EXCEPT !.dir_queue = popleft(@).rest,
                                      !.current_dir = current_dir]
          /\ localfs' = LocalMkdirs(localfs, "T", current_dir)
          /\ stack' = << NewFrame("listdir", "R", current_dir, PyNone) >>
          /\ hist' = [hist EXCEPT !.dequeued = Append(@, current_dir)]
    /\ pc' = "listed"
    /\ UNCHANGED << _nns, _active_namenode, _last_refresh_ts, now, active, stable, call,
                    ret, remote >>
    /\ UNCHANGED retryVars /\ UNCHANGED threadVars

\* _download_directory, line 266: the queue is empty or a download failed
DownloadLoopExit ==
    /\ pc = "bfs"
    /\ ~ (Len(locals.dir_queue) # 0 /\ locals.is_success = PyTrue)
    /\ pc' = "dl_staged"
    /\ UNCHANGED << _nns, _active_namenode, _last_refresh_ts, now, active, stable, call, stack, ret,
                    locals, remote, localfs, hist >>
    /\ UNCHANGED retryVars /\ UNCHANGED threadVars

\* What listdir returned for `dir`: HDFSData(dirs, files) of lines 139-141.
ListedDirs(dir)  == SetToSeq(SubDirs(remote["R"], dir))
ListedFiles(dir) == LET fs == SetToSeq(FilesIn(remote["R"], dir))
                    IN [i \in 1..Len(fs) |-> fs[i][1]]

\* _download_directory, lines 273-275: listdir has returned; its sub-directories
\* join the queue.  A None result has no attribute `dirs`: AttributeError.
DownloadListed ==
    /\ pc = "listed" /\ stack = << >> /\ ret.kind = "return"
    /\ IF ret.val = PyNone
       THEN /\ pc' = "done" /\ ret' = Raised(AttributeError)
            /\ UNCHANGED locals
       ELSE /\ locals' = [locals EXCEPT
                             !.dir_queue = @ \o ListedDirs(locals.current_dir),
                             !.files = ListedFiles(locals.current_dir)]
            /\ pc' = IF ListedFiles(locals.current_dir) = << >> THEN "bfs" ELSE "files"
            /\ ret' = NoRet
    /\ hist' = [hist EXCEPT
                   !.step_failed = @ \/ (ret.val = PyNone),
                   !.enqueued = IF ret.val = PyNone THEN @
                                ELSE @ \o ListedDirs(locals.current_dir)]
    /\ UNCHANGED << _nns, _active_namenode, _last_refresh_ts, now, active, stable, call, stack,
                    remote, localfs >>
    /\ UNCHANGED retryVars /\ UNCHANGED threadVars

\* _download_directory, line 276: download the next file of the listing
DownloadStep ==
    /\ pc = "files" /\ stack = << >>
    /\ stack' = << NewFrame("_download_file", "R", Head(locals.files), PyNone) >>
    /\ pc' = "dl_step"
    /\ UNCHANGED << _nns, _active_namenode, _last_refresh_ts, now, active, stable, call, ret,
                    locals, remote, localfs, hist >>
    /\ UNCHANGED retryVars /\ UNCHANGED threadVars

\* _download_directory, line 276: `is_success &= ...`
DownloadStepDone ==
    /\ pc = "dl_step" /\ stack = << >> /\ ret.kind = "return"
    /\ locals' = [locals EXCEPT !.is_success = PyAnd(@, ret.val),
                                !.files = Tail(@)]
    /\ pc' = IF Tail(locals.files) = << >> THEN "bfs" ELSE "files"
    /\ ret' = NoRet
    /\ hist' = Failed(ret.val)
    /\ UNCHANGED << _nns, _active_namenode, _last_refresh_ts, now, active, stable, call, stack,
                    remote, localfs >>
    /\ UNCHANGED retryVars /\ UNCHANGED threadVars

\* _download_by_tmp_data, lines 246-248 and 252: replace the local target by
\* the staging tree
DownloadCommit ==
    /\ pc = "dl_staged" /\ locals.is_success = PyTrue
    /\ localfs' = LocalCommit(localfs)
    /\ pc' = "done" /\ ret' = Returned(locals.is_success)
    /\ UNCHANGED << _nns, _active_namenode, _last_refresh_ts, now, active, stable, call, stack,
                    locals, remote, hist >>
    /\ UNCHANGED retryVars /\ UNCHANGED threadVars

\* _download_by_tmp_data, line 250: HDFSClient has no method
\* _check_and_remove_data, the attribute lookup raises AttributeError
DownloadRollback ==
    /\ pc = "dl_staged" /\ locals.is_success # PyTrue
    /\ pc' = "done" /\ ret' = Raised(AttributeError)
    /\ UNCHANGED << _nns, _active_namenode, _last_refresh_ts, now, active, stable, call, stack,
                    locals, remote, localfs, hist >>
    /\ UNCHANGED retryVars /\ UNCHANGED threadVars

DownloadInit ==
    /\ call \in [op : {"download"},
                 namenodes : Registries,
                 overwrite : BOOLEAN,
                 src : SourceTrees \cup {WideDir, ABSENT},
                 prior : PriorEntries,
                 faults : {TRUE}]
    /\ _nns = call.namenodes
    /\ _active_namenode = _nns[1]
    /\ active \in Range(call.namenodes) \cup {NoNode}
    /\ stable \in BOOLEAN
    /\ ~stable => active = NoNode
    /\ pc = "download" /\ stack = << >> /\ ret = NoRet
    /\ locals = NoLocals
    /\ remote = [R |-> call.src, T |-> ABSENT]
    /\ localfs = [L |-> call.prior, T |-> ABSENT]
    /\ _last_refresh_ts = 0 /\ now = 0
    /\ hist = IF call.op = "__init__" THEN NoHist ELSE Constructed(_active_namenode)
    /\ RetryIdle /\ ThreadsIdle

DownloadNext ==
    \/ DownloadRefused
    \/ DownloadStatus
    \/ DownloadFileRequest
    \/ DownloadRaises
    \/ DownloadFileDone
    \/ DownloadDequeue
    \/ DownloadLoopExit
    \/ DownloadListed
    \/ DownloadStep
    \/ DownloadStepDone
    \/ DownloadCommit
    \/ DownloadRollback
    \/ ListdirRequest
    \/ FrameNext

SpecDownload == DownloadInit /\ [][DownloadNext]_vars

-----------------------------------------------------------------------------
(* Claims about discovery and the simple operations (Spec)                 *)

\* C1: in a stable cluster where a candidate of the registry reports active,
\* whatever the other candidate's status query does, construction's discovery
\* ends normally with the active candidate at position 0 and cached.
C1_DiscoverPromotesActive ==
    (Done /\ call.op = "__init__" /\ stable /\ active \in Range(_nns))
        => (ret = Returned(PyNone) /\ _nns[1] = active /\ _active_namenode = active)

\* C2: when no candidate ever reports active, a call on a client with a valid
\* registry that needs a discovery ends by raising ActiveNamenodeNotFoundException
\* (and not by running nested discoveries until the interpreter gives up).
C2_EndsWithActiveNodeNotFound ==
    (Done /\ stable /\ active = NoNode /\ _nns # << >>)
        => ret = Raised(ActiveNamenodeNotFoundException)

\* C9: a makedirs / delete / rename call none of whose attempts succeeded,
\* while every re-discovery between the attempts returned, has sent exactly
\* DEFAULT_ERROR_BOUNDARY requests and returns False; it does not raise.
C9_ExhaustedReturnsFalse ==
    (Done /\ call.op \in SimpleOps /\ ~hist.disc_raised /\ ret # Returned(PyTrue))
        => (ret = Returned(PyFalse) /\ hist.sent = DEFAULT_ERROR_BOUNDARY)

C9_Witness ==
    /\ Done /\ call.op \in SimpleOps /\ ~hist.disc_raised
    /\ ret = Returned(PyFalse) /\ hist.sent = 3
    /\ _active_namenode # call.namenodes[1]

\* C12: a construction whose discovery finds no candidate reporting active
\* ends by raising ActiveNamenodeNotFoundException to the constructor's caller,
\* with the candidates in the order given, no active node cached and no
\* discovery time recorded.
C12_NoActiveRaisesAndKeepsRegistry ==
    (Done /\ call.op = "__init__" /\ stable /\ active = NoNode
          /\ call.namenodes # << >>)
        => /\ ret = Raised(ActiveNamenodeNotFoundException)
           /\ _nns = call.namenodes
           /\ _active_namenode = Unset
           /\ _last_refresh_ts = 0

\* C14: for every refresh interval, the first request of a makedirs / rename /
\* delete / listdir call is preceded by a discovery of that call if the time
\* since the last discovery exceeded the interval when the request was built,
\* and by none if it did not.
C14_StaleResolveDiscoversFirst ==
    \A interval \in 0..MaxClock :
        (call.op \in SimpleOps \cup {"listdir"} /\ hist.sent >= 1)
            => /\ hist.first_send.elapsed > interval => hist.first_send.discovered
               /\ hist.first_send.elapsed <= interval => ~hist.first_send.discovered

\* C16: every request of a call is addressed to the node that the most recent
\* successful discovery found active (for the first attempts, the discovery of
\* the construction), also after a re-discovery that found another node.
C16_RequestsGoToDiscoveredNode ==
    hist.last_send.to # PyNone => hist.last_send.to = hist.last_send.found

C16_Witness ==
    /\ call.op \in SimpleOps /\ hist.sent >= 2
    /\ hist.first_send.to = call.namenodes[1]
    /\ hist.last_send.to # call.namenodes[1]
    /\ hist.last_send.to = hist.last_send.found

-----------------------------------------------------------------------------
(* Claims about the retry executor (SpecRetry)                             *)

\* An attempt fails when the operation raised a declared kind of error or
\* returned a value equal (Python ==) to the executor's default value.
IsFailing(x) == x \in RetryExceptions \/ PyEq(x, ra._default_return_value)

FailingAttempts == {i \in 1..Len(attempts) : IsFailing(attempts[i])}

RetryEnded == ra.pc \in {"returned", "raised"}

\* C10: one call of the executor invokes the operation at most 3 times and
\* never again after an attempt that did not fail; the callback has been
\* invoked once for every failing attempt handled so far (so exactly once per
\* failing attempt when the call ends, and never for a successful one); its
\* is_final argument is true on the 3rd invocation and on no other.
C10_AttemptsAndCallbacks ==
    /\ Len(attempts) <= 3
    /\ \A i \in 1..Len(attempts) : i < Len(attempts) => IsFailing(attempts[i])
    /\ Len(triggers) <= Cardinality(FailingAttempts)
    /\ Cardinality(FailingAttempts) <= Len(triggers) + 1
    /\ (RetryEnded \/ ra.pc = "while") => Len(triggers) = Cardinality(FailingAttempts)
    /\ \A i \in 1..Len(triggers) : triggers[i] <=> (i = 3)

C10_Witness ==
    /\ RetryEnded
    /\ Len(attempts) = 3
    /\ triggers = << FALSE, FALSE, TRUE >>
    /\ \E i, j \in 1..3 : attempts[i] = RequestException
                          /\ attempts[j] = ra._default_return_value

\* C11: an executor whose default value is ResultValue.NOTHING, all 3 of whose
\* attempts failed (by a declared error or by a sentinel result, in any order),
\* ends by raising, and raises the error of the last attempt if it raised one;
\* it does not return the sentinel.
C11_SentinelFallbackRaises ==
    (/\ RetryEnded /\ IsNothing(ra._default_return_value)
     /\ Len(attempts) = DEFAULT_ERROR_BOUNDARY
     /\ \A i \in 1..Len(attempts) : IsFailing(attempts[i]))
        => /\ ra.out.kind = "raise"
           /\ attempts[Len(attempts)] \in RetryExceptions
                  => ra.out.val = attempts[Len(attempts)]

\* C17: an attempt that raised a kind of error the executor does not declare
\* is the last attempt: the call has ended by raising that error, and the
\* callback was invoked for the failing attempts before it only.
C17_UndeclaredErrorPropagates ==
    \A i \in 1..Len(attempts) :
        (attempts[i] \in OpRaises \ RetryExceptions)
            => /\ i = Len(attempts)
               /\ ra.pc = "raised"
               /\ ra.out = [kind |-> "raise", val |-> attempts[i]]
               /\ Len(triggers) = i - 1

C17_Witness ==
    /\ Len(attempts) = 2
    /\ attempts[1] = RequestException
    /\ attempts[2] = ValueError
    /\ ra.out = [kind |-> "raise", val |-> ValueError]
    /\ triggers = << FALSE >>

-----------------------------------------------------------------------------
(* Claims about upload (SpecUpload)                                        *)

Issued(fn, root) == << fn, root >> \in hist.issued

\* The tree a complete upload of `tree` leaves at the staging path: the same
\* directories and files, each file holding the body of its CREATE request.
AsStored(tree) ==
    [tree EXCEPT !.files =
        {<< f[1], RequestBody(Basename("T", f[1]), f[2]) >> : f \in @}]

\* C3: when an upload ends, the entry at the target is what was there before
\* the call or the complete uploaded tree.  (Stated for the calls in which no
\* discovery raised, so that a violation does not rest on a failed discovery.)
C3_NoPartialCommit ==
    (Done /\ call.op = "upload" /\ ~hist.disc_raised)
        => remote["R"] \in {call.prior, AsStored(call.src)}

\* C4: an upload without overwrite whose pre-check reports an entry (FILE or
\* DIRECTORY) returns False and has issued no request but that status query.
C4_RefusedUploadSendsNothing ==
    (Done /\ call.op = "upload" /\ ~call.overwrite /\ hist.precheck # PyNone)
        => (ret = Returned(PyFalse) /\ hist.issued = {<< "status", "R" >>})

C4_Witness ==
    /\ Done /\ call.op = "upload" /\ ~call.overwrite
    /\ hist.precheck = DIRECTORY /\ call.src # ABSENT
    /\ ret = Returned(PyFalse)

\* C5: the entry-status query never raises, whatever its request does.
C5_StatusQueryNeverRaises ==
    call.op = "upload" => ~hist.stat_raised

\* C6: an upload whose transfer into staging failed (a makedirs or create-file
\* returned False after its retries, or reading a local file raised) has issued
\* a delete of the staging path and returns False.
C6_FailedTransferCleansUp ==
    (Done /\ call.op = "upload" /\ (hist.step_failed \/ hist.io_error))
        => (Issued("delete", "T") /\ ret = Returned(PyFalse))

\* C7: an upload one of whose makedirs or create-file calls returned False
\* (the makedirs of the staging root included) has issued no delete of the
\* target and no rename onto it, and the target's entry is what it was.
C7_FailedStepLeavesTarget ==
    (Done /\ call.op = "upload" /\ hist.step_failed)
        => (~Issued("delete", "R") /\ ~Issued("rename", "T")
            /\ remote["R"] = call.prior)

\* C19: an upload that returned True has committed: the target holds the
\* complete uploaded tree and nothing is left at the staging path.
C19_TrueMeansCommitted ==
    (Done /\ call.op = "upload" /\ ret = Returned(PyTrue))
        => (remote["R"] = AsStored(call.src) /\ remote["T"] = ABSENT)

\* C20: an upload without overwrite, called while an entry is at the target,
\* issues no delete of the target and ends with that entry still there,
\* whatever its status queries answered.
C20_NoOverwriteKeepsTarget ==
    (Done /\ call.op = "upload" /\ ~call.overwrite /\ call.prior # ABSENT)
        => (~Issued("delete", "R") /\ remote["R"] = call.prior)

-----------------------------------------------------------------------------
(* Claims about download (SpecDownload)                                    *)

\* C8: a download whose transfer failed (a file download returned False after
\* its retries, or a listing returned None after its retries) ends with its
\* local staging tree removed and the local target as it was, and returns
\* False.
C8_FailedDownloadCleansUp ==
    (Done /\ call.op = "download" /\ hist.step_failed)
        => (localfs["T"] = ABSENT /\ localfs["L"] = call.prior
            /\ ret = Returned(PyFalse))

-----------------------------------------------------------------------------
(* An upload followed by a download of what it stored, without faults      *)

\* The caller, after upload(L, R, True) has ended, calls download(R, L2, True):
\* from here on the local target "L" stands for L2 and holds what was at L2.
RoundTripTurn ==
    /\ pc = "done" /\ call.op = "upload"
    /\ \E prior \in PriorEntries :
         /\ call' = [call EXCEPT !.op = "download", !.prior = prior]
         /\ localfs' = [L |-> prior, T |-> ABSENT]
    /\ pc' = "download" /\ ret' = NoRet
    /\ locals' = NoLocals
    /\ hist' = Constructed(_active_namenode)
    /\ UNCHANGED << _nns, _active_namenode, _last_refresh_ts, now, active, stable,
                    stack, remote >>
    /\ UNCHANGED retryVars /\ UNCHANGED threadVars

RoundTripInit ==
    /\ call \in [op : {"upload"},
                 namenodes : Registries,
                 overwrite : {TRUE},
                 src : SourceTrees \cup {WideDir},
                 prior : PriorEntries,
                 faults : {FALSE}]
    /\ _nns = call.namenodes
    /\ _active_namenode = _nns[1]
    /\ active = _nns[1] /\ stable = TRUE
    /\ pc = "upload" /\ stack = << >> /\ ret = NoRet
    /\ locals = NoLocals
    /\ remote = [R |-> call.prior, T |-> ABSENT]
    /\ localfs = [L |-> call.src, T |-> ABSENT]
    /\ _last_refresh_ts = 0 /\ now = 0
    /\ hist = Constructed(_active_namenode)
    /\ RetryIdle /\ ThreadsIdle

\* Without faults no request fails, so no RetryAction call leaves its first
\* attempt: of the steps of RetryAction.__call__ only the entry takes part.
RoundTripNext ==
    \/ UploadNoPrecheck
    \/ UploadClassify
    \/ UploadWalk
    \/ UploadStep
    \/ UploadStepDone
    \/ UploadFileDone
    \/ UploadCheckAndRemove
    \/ UploadRename
    \/ UploadReturn
    \/ RoundTripTurn
    \/ DownloadStatus
    \/ DownloadFileDone
    \/ DownloadDequeue
    \/ DownloadLoopExit
    \/ DownloadListed
    \/ DownloadStep
    \/ DownloadStepDone
    \/ DownloadCommit
    \/ FrameEnter
    \/ SimpleRequest
    \/ ListdirRequest
    \/ DownloadFileRequest

SpecRoundTrip == RoundTripInit /\ [][RoundTripNext]_vars

\* C15: after upload(L, R, True) and download(R, L2, True) without faults, the
\* download has returned True and L2 holds the directories of L (the empty
\* ones included) and the files of L, each with the bytes it has in L.
C15_RoundTripLossless ==
    (Done /\ call.op = "download" /\ ~call.faults)
        => (ret = Returned(PyTrue) /\ localfs["L"] = call.src)

\* Sanity of RoundTripNext: the steps it leaves out are never enabled, since no
\* RetryAction call fails, nothing raises and no transfer reports failure.
RoundTripNoFailure ==
    /\ stack # << >> => (Top.pc \in {"while", "try"} /\ Top._error_count = 0)
    /\ ret.kind # "raise"
    /\ pc \notin {"dl_staged"} \/ locals.is_success = PyTrue

-----------------------------------------------------------------------------
(* Two callers running _refresh_active_namenode on one client              *)

Callers == {"c1", "c2"}

\* The callers either use the client as it is (lock "unused") or put every
\* discovery under one exclusive lock of their own ("free" or its holder).
Locks == {"unused", "free"}

ThreadIdle == [pc |-> "idle", idx |-> 0, active_index |-> PyNone]

\* What a reachable candidate answers to a status query here: the active one
\* "active", another one standby or a response without success.
ThreadAnswers(node) == StatusAnswers(node) \ {"error"}

Release(c) == IF lock = c THEN "free" ELSE lock

\* a caller enters _refresh_active_namenode (line 79), under the lock if used
ThreadEnter(c) ==
    /\ threads[c].pc = "idle"
    /\ lock \in {"unused", "free"}
    /\ lock' = IF lock = "free" THEN c ELSE lock
    /\ threads' = [threads EXCEPT ![c].pc = "scan"]
    /\ UNCHANGED clientVars /\ UNCHANGED retryVars

\* lines 81-89: the next step of enumerate(self._nns), which reads the list
\* as it is now, and the status query of the candidate it yields
ThreadQuery(c) ==
    /\ threads[c].pc = "scan"
    /\ LET t == threads[c]
       IN \E ans \in ThreadAnswers(_nns[t.idx + 1]) :
            /\ threads' =
                  [threads EXCEPT ![c] =
                      CASE ans = "active" -> [t EXCEPT !.pc = "found",
                                                       !.active_index = t.idx]
                        [] t.idx + 1 < Len(_nns) -> [t EXCEPT !.idx = @ + 1]
                        [] OTHER -> [t EXCEPT !.pc = "raised"]]
            /\ lock' = IF ans # "active" /\ ~(t.idx + 1 < Len(_nns))
                       THEN Release(c) ELSE lock
    /\ UNCHANGED clientVars /\ UNCHANGED retryVars

\* lines 91-92: reorder the shared list
ThreadReverse(c) ==
    /\ threads[c].pc = "found"
    /\ _nns' = Promote(_nns, threads[c].active_index)
    /\ threads' = [threads EXCEPT ![c].pc = "promoted"]
    /\ UNCHANGED << _active_namenode, _last_refresh_ts, now, active, stable, call, pc,
                    stack, ret, locals, remote, localfs, hist, lock >>
    /\ UNCHANGED retryVars

\* lines 94-95: cache the candidate at position 0 and return
ThreadAssign(c) ==
    /\ threads[c].pc = "promoted"
    /\ _active_namenode' = _nns[1]
    /\ _last_refresh_ts' = now
    /\ threads' = [threads EXCEPT ![c].pc = "returned"]
    /\ lock' = Release(c)
    /\ UNCHANGED << _nns, now, active, stable, call, pc,
                    stack, ret, locals, remote, localfs, hist >>
    /\ UNCHANGED retryVars

ThreadsInit ==
    /\ call \in [op : {REFRESH},
                 namenodes : Registries,
                 overwrite : {FALSE},
                 src : {ABSENT},
                 prior : {ABSENT},
                 faults : {TRUE}]
    /\ _nns = call.namenodes
    /\ _active_namenode = _nns[1]
    /\ active \in Range(call.namenodes) \cup {NoNode}
    /\ stable = TRUE
    /\ pc = "idle" /\ stack = << >> /\ ret = NoRet
    /\ locals = NoLocals
    /\ remote = [R |-> ABSENT, T |-> ABSENT]
    /\ localfs = [L |-> ABSENT, T |-> ABSENT]
    /\ _last_refresh_ts = 0 /\ now = 0
    /\ hist = Constructed(_active_namenode)
    /\ RetryIdle
    /\ threads = [c \in Callers |-> ThreadIdle]
    /\ lock \in Locks

ThreadsNext ==
    \E c \in Callers :
        \/ ThreadEnter(c)
        \/ ThreadQuery(c)
        \/ ThreadReverse(c)
        \/ ThreadAssign(c)

SpecThreads == ThreadsInit /\ [][ThreadsNext]_vars

AllReturned == \A c \in Callers : threads[c].pc = "returned"

\* C18: when both callers' discoveries have returned (in a cluster where one
\* candidate keeps reporting active), the candidate at position 0 and the
\* cached active node are the active candidate, except after runs without a
\* lock in which both callers saw the active candidate at index 1 (and both
\* reversed the list); with the lock that state is not reached.
C18_OnlyUnlockedRacesMisorder ==
    (threads # << >> /\ AllReturned /\ active \in Range(_nns))
        => \/ _nns[1] = active /\ _active_namenode = active
           \/ lock = "unused" /\ \A c \in Callers : threads[c].active_index = 1

\* the unsynchronized interleaving: both returned, a standby in front and cached
C18_Witness ==
    /\ threads # << >> /\ AllReturned /\ lock = "unused"
    /\ active \in Range(_nns)
    /\ _nns[1] # active /\ _active_namenode # active

IsPrefix(s, t) == Len(s) <= Len(t) /\ s = SubSeq(t, 1, Len(s))

====
